---- MODULE Spec2Model ----
(***************************************************************************)
(* Model of the draft-board store of fantasy_football_draft_planner.py:    *)
(* the per-position boards kept in st.session_state, the operations that   *)
(* change them (add, bulk add, mark, remove, grid write-back, import,      *)
(* reset, clear, add position) and the derived views (export, watchlist).  *)
(*                                                                         *)
(* Representation.                                                         *)
(*   - A Python str is a sequence of one-character strings ("" is <<>>),   *)
(*     so that strip, upper, split, int() and the CSV reader's missing-    *)
(*     value detection are computed character by character.                *)
(*   - A pandas missing value in a text column is the value NaN below; a   *)
(*     missing number (None or float nan) is NoNum.                        *)
(*   - A DataFrame is the sequence of its rows, each a record with the     *)
(*     fields Rank, Player, Team, Bye, Notes, Status.  Row labels are not  *)
(*     modelled: they are unique in every board the program stores, and a  *)
(*     selection is given by the positions of the selected rows.           *)
(*   - A dict is a function together with the sequence of its keys in      *)
(*     insertion order (boards, board_keys).                               *)
(***************************************************************************)
EXTENDS Integers, Sequences, FiniteSets, TLC

VARIABLES boards, board_keys, positions, watchlist_order, last, ret

vars == <<boards, board_keys, positions, watchlist_order, last, ret>>

store == <<boards, board_keys, positions>>

-----------------------------------------------------------------------------
(* Bounds of the model *)

\* most rows the store holds in total after an Add, a Bulk Add or an Import
MaxRows == 2

\* longest bulk-add text, in characters
MaxTextLen == 5

\* most applications of update_ranks_from_order in a row
MaxReindex == 2

-----------------------------------------------------------------------------
(* Characters and strings *)

ASCII ==
    << "\n", " ", "0", "1", "2", "3", "4", "5", "6", "7", "8", "9",
       "A", "B", "C", "D", "E", "F", "G", "H", "I", "J", "K", "L", "M",
       "N", "O", "P", "Q", "R", "S", "T", "U", "V", "W", "X", "Y", "Z",
       "a", "b", "c", "d", "e", "f", "g", "h", "i", "j", "k", "l", "m",
       "n", "o", "p", "q", "r", "s", "t", "u", "v", "w", "x", "y", "z",
       "|" >>

CharCode(c) == CHOOSE i \in 1..Len(ASCII) : ASCII[i] = c

IsSpace(c) == c \in {" ", "\n"}

IsDigit(c) == c \in {"0", "1", "2", "3", "4", "5", "6", "7", "8", "9"}

IsLower(c) == CharCode(c) >= CharCode("a") /\ CharCode(c) <= CharCode("z")

\* str.upper() on one character
UpperChar(c) == IF IsLower(c) THEN ASCII[CharCode(c) - 26] ELSE c

\* str.upper()
Upper(s) == [i \in 1..Len(s) |-> UpperChar(s[i])]

RECURSIVE LStrip(_)
LStrip(s) == IF s # <<>> /\ IsSpace(Head(s)) THEN LStrip(Tail(s)) ELSE s

RECURSIVE RStrip(_)
RStrip(s) ==
    IF s # <<>> /\ IsSpace(s[Len(s)]) THEN RStrip(SubSeq(s, 1, Len(s) - 1)) ELSE s

\* str.strip()
Strip(s) == RStrip(LStrip(s))

\* str.split(sep) for a one-character separator: always at least one part
RECURSIVE Split(_, _)
Split(s, sep) ==
    IF \E i \in 1..Len(s) : s[i] = sep
    THEN LET i == CHOOSE j \in 1..Len(s) : s[j] = sep /\ \A k \in 1..(j - 1) : s[k] # sep
         IN  <<SubSeq(s, 1, i - 1)>> \o Split(SubSeq(s, i + 1, Len(s)), sep)
    ELSE <<s>>

\* str.splitlines(): split at line ends, no empty last line
SplitLines(s) ==
    LET parts == Split(s, "\n")
    IN  IF parts[Len(parts)] = <<>> THEN SubSeq(parts, 1, Len(parts) - 1) ELSE parts

\* the strings int() accepts, among the strings of the model's alphabet
IsInt(s) == s # <<>> /\ \A i \in 1..Len(s) : IsDigit(s[i])

RECURSIVE IntOf(_)
IntOf(s) ==
    IF s = <<>> THEN 0
    ELSE 10 * IntOf(SubSeq(s, 1, Len(s) - 1)) + (CharCode(s[Len(s)]) - CharCode("0"))

\* str(n) for n >= 0
RECURSIVE StrOf(_)
StrOf(n) ==
    IF n < 10 THEN <<ASCII[CharCode("0") + n]>>
    ELSE StrOf(n \div 10) \o <<ASCII[CharCode("0") + (n % 10)]>>

\* s < t for Python strings (lexicographic by code point)
RECURSIVE StrLess(_, _)
StrLess(s, t) ==
    IF t = <<>> THEN FALSE
    ELSE IF s = <<>> THEN TRUE
    ELSE IF Head(s) # Head(t) THEN CharCode(Head(s)) < CharCode(Head(t))
    ELSE StrLess(Tail(s), Tail(t))

-----------------------------------------------------------------------------
(* Missing values *)

\* a missing value in a text column (np.nan); no string of the model equals it
NaN == <<"nan">>

IsNaN(v) == v # <<>> /\ v[1] = "nan"

\* a missing number: None, or float nan
NoNum == -1

-----------------------------------------------------------------------------
(* Configuration *)

DEFAULT_POSITIONS ==
    << <<"Q", "B">>, <<"R", "B">>, <<"W", "R">>, <<"T", "E">>,
       <<"F", "L", "E", "X">>, <<"D", "S", "T">>, <<"K">> >>

Available == <<"A", "v", "a", "i", "l", "a", "b", "l", "e">>
Drafted == <<"D", "r", "a", "f", "t", "e", "d">>
Unavailable == <<"U", "n", "a", "v", "a", "i", "l", "a", "b", "l", "e">>
Watch == <<"W", "a", "t", "c", "h">>

STATUS_OPTIONS == {Available, Drafted, Unavailable, Watch}

RB == <<"R", "B">>
QB == <<"Q", "B">>

Range(f) == {f[i] : i \in DOMAIN f}

\* pd.DataFrame(columns=[...]): a board without rows
EmptyBoard == <<>>

SampleRB ==
    << [Rank |-> 1,
        Player |-> <<"C", "h", "r", "i", "s", "t", "i", "a", "n", " ",
                     "M", "c", "C", "a", "f", "f", "r", "e", "y">>,
        Team |-> <<"S", "F">>, Bye |-> 9,
        Notes |-> <<"E", "l", "i", "t", "e", " ", "t", "a", "l", "e", "n", "t">>,
        Status |-> Available],
       [Rank |-> 2,
        Player |-> <<"B", "r", "e", "e", "c", "e", " ", "H", "a", "l", "l">>,
        Team |-> <<"N", "Y", "J">>, Bye |-> 12,
        Notes |-> <<"B", "r", "e", "a", "k", "o", "u", "t", " ", "y", "e", "a", "r">>,
        Status |-> Available],
       [Rank |-> 3,
        Player |-> <<"B", "i", "j", "a", "n", " ", "R", "o", "b", "i", "n", "s", "o", "n">>,
        Team |-> <<"A", "T", "L">>, Bye |-> 11,
        Notes |-> <<"R", "o", "o", "k", "i", "e", " ", "s", "t", "u", "d">>,
        Status |-> Available] >>

-----------------------------------------------------------------------------
(* Boards *)

\* df.empty
IsEmpty(df) == Len(df) = 0

\* normalize_board: the six columns, numeric Rank and Bye, a valid Status.
\* Rank and Bye hold numbers or NoNum already (ReadNum), where to_numeric
\* changes nothing; the Rank values are kept as they are.
normalize_board(df) ==
    IF IsEmpty(df) THEN EmptyBoard
    ELSE [i \in 1..Len(df) |->
            [Rank |-> df[i].Rank, Player |-> df[i].Player, Team |-> df[i].Team,
             Bye |-> df[i].Bye, Notes |-> df[i].Notes,
             Status |-> IF df[i].Status \in STATUS_OPTIONS THEN df[i].Status
                        ELSE Available]]

\* a mutant of update_ranks_from_order: the ranks are left as they are
update_ranks_keep(df) == df

\* a mutant of update_ranks_from_order: the place of the row is added to its rank
update_ranks_shift(df) ==
    IF Len(df) = 0 THEN df
    ELSE [i \in 1..Len(df) |-> [df[i] EXCEPT !.Rank = df[i].Rank + i]]

\* update_ranks_from_order: Rank = 1..len(df), nothing else changes
update_ranks_from_order(df) ==
    IF IsEmpty(df) THEN df
    ELSE [i \in 1..Len(df) |-> [df[i] EXCEPT !.Rank = i]]

\* board["Rank"].max(): the largest rank that is not missing (NoNum if none is)
MaxRank(board) ==
    LET rs == {board[i].Rank : i \in 1..Len(board)} \ {NoNum}
    IN  IF rs = {} THEN NoNum ELSE CHOOSE r \in rs : \A q \in rs : q <= r

\* a mutant of add_player: a status the caller supplies is kept
add_player_keep_status(board, player_data) ==
    update_ranks_from_order(
        Append(board, [Rank |-> Len(board) + 1,
                       Player |-> Strip(player_data.Player),
                       Team |-> Strip(player_data.Team),
                       Bye |-> player_data.Bye,
                       Notes |-> Strip(player_data.Notes),
                       Status |-> IF "Status" \in DOMAIN player_data
                                  THEN player_data.Status ELSE Available]))

\* add_player, on the board of the position: the board it stores
add_player(board, player_data) ==
    LET next_rank == IF ~IsEmpty(board) /\ MaxRank(board) # NoNum
                     THEN MaxRank(board) + 1 ELSE 1
        new_row == [Rank |-> next_rank,
                    Player |-> Strip(player_data.Player),
                    Team |-> Strip(player_data.Team),
                    Bye |-> player_data.Bye,
                    Notes |-> Strip(player_data.Notes),
                    Status |-> Available]
    IN  update_ranks_from_order(Append(board, new_row))

TotalRows(bs) ==
    LET RECURSIVE Sum(_)
        Sum(S) == IF S = {} THEN 0
                  ELSE LET k == CHOOSE x \in S : TRUE IN Len(bs[k]) + Sum(S \ {k})
    IN  Sum(DOMAIN bs)

\* a mutant of mark_selected_players: the board is ranked anew as well
mark_selected_players_rerank(board, selected_indices, new_status) ==
    update_ranks_from_order(
        [i \in 1..Len(board) |->
            IF i \in selected_indices THEN [board[i] EXCEPT !.Status = new_status]
            ELSE board[i]])

\* mark_selected_players, on the board of the position (a non-empty selection)
mark_selected_players(board, selected_indices, new_status) ==
    [i \in 1..Len(board) |->
        IF i \in selected_indices THEN [board[i] EXCEPT !.Status = new_status]
        ELSE board[i]]

\* board.drop(selected_indices).reset_index(drop=True)
RECURSIVE Drop(_, _)
Drop(board, selected_indices) ==
    IF board = <<>> THEN <<>>
    ELSE LET n == Len(board)
             front == Drop(SubSeq(board, 1, n - 1), selected_indices)
         IN  IF n \in selected_indices THEN front ELSE Append(front, board[n])

\* a mutant of remove_selected_players: the rows left keep their ranks
remove_selected_players_keep_ranks(board, selected_indices) ==
    Drop(board, selected_indices)

\* remove_selected_players, on the board of the position (a non-empty selection)
remove_selected_players(board, selected_indices) ==
    update_ranks_from_order(Drop(board, selected_indices))

\* board[mask]: the rows of a frame where the boolean mask holds, in their order
SelectRows(board, mask) ==
    LET F[n \in 0..Len(board)] ==
            IF n = 0 THEN <<>>
            ELSE IF mask[n] THEN Append(F[n - 1], board[n]) ELSE F[n - 1]
    IN  F[Len(board)]

\* get_filtered_board
get_filtered_board(board, local_hidden) ==
    IF local_hidden = {} THEN board
    ELSE SelectRows(board, [i \in 1..Len(board) |-> board[i].Status \notin local_hidden])

-----------------------------------------------------------------------------
(* The grid of a position tab *)

\* the statuses the three "Hide" checkboxes of a tab can hide
HIDEABLE == {Drafted, Unavailable, Watch}

\* the sequences without repetition over 1..n, of every length
Orderings(n) ==
    {f \in UNION {[1..k -> 1..n] : k \in 0..n} :
        \A i, j \in DOMAIN f : i # j => f[i] # f[j]}

\* the first two rows change places (a drag)
SwapFirstTwo(df) ==
    IF Len(df) < 2 THEN df
    ELSE [i \in 1..Len(df) |-> IF i = 1 THEN df[2] ELSE IF i = 2 THEN df[1] ELSE df[i]]

\* the Status dropdown of the first row: Watch, or Available if it is Watch
EditFirstStatus(df) ==
    IF Len(df) = 0 THEN df
    ELSE [df EXCEPT ![1].Status = IF @ = Watch THEN Available ELSE Watch]

\* What the grid hands back for the rows it was given, in the model: the rows
\* as they are, or with the first two dragged, or with the status of the first
\* changed, or both; all of them, or all but the last (a grid filter), or none.
GridData(shown) ==
    LET kept == {shown, SubSeq(shown, 1, Len(shown) - 1), <<>>}
        moved == kept \cup {SwapFirstTwo(df) : df \in kept}
    IN  moved \cup {EditFirstStatus(df) : df \in moved}

-----------------------------------------------------------------------------
(* CSV text.  A CSV text is its header (the set of its column names) and its   *)
(* rows, each cell the string written between the delimiters; the empty text  *)
(* has no header.                                                             *)

COLUMNS == {"Position", "Rank", "Player", "Team", "Bye", "Notes", "Status"}

EmptyCsv == [header |-> {}, rows |-> <<>>]

\* the cells read_csv takes for a missing value, among the strings of letters
NA_VALUES ==
    { <<>>, <<"N", "A">>, <<"N", "a", "N">>, <<"n", "a", "n">>,
      <<"N", "U", "L", "L">>, <<"n", "u", "l", "l">>, <<"N", "o", "n", "e">> }

\* to_csv on a text cell: a missing value is written as the empty cell
FormatText(v) == IF IsNaN(v) THEN <<>> ELSE v

\* to_csv on a numeric cell
FormatNum(n) == IF n = NoNum THEN <<>> ELSE StrOf(n)

\* read_csv on a cell of a text column (the model's strings are not numerals)
ReadText(t) == IF t \in NA_VALUES THEN NaN ELSE t

\* read_csv, then to_numeric(errors="coerce"), on a cell of Rank or Bye
ReadNum(t) == IF IsInt(t) THEN IntOf(t) ELSE NoNum

\* combined_df.to_csv(index=False)
to_csv(df) ==
    [header |-> COLUMNS,
     rows |-> [i \in 1..Len(df) |->
                [Position |-> FormatText(df[i].Position), Rank |-> FormatNum(df[i].Rank),
                 Player |-> FormatText(df[i].Player), Team |-> FormatText(df[i].Team),
                 Bye |-> FormatNum(df[i].Bye), Notes |-> FormatText(df[i].Notes),
                 Status |-> FormatText(df[i].Status)]]]

\* the frames of export_data, concatenated: the rows of the non-empty boards in
\* the dict's order, each with its Position
RECURSIVE Frames(_, _)
Frames(bs, keys) ==
    IF keys = <<>> THEN <<>>
    ELSE LET pos == Head(keys)
             df == bs[pos]
         IN  [i \in 1..Len(df) |->
                [Position |-> pos, Rank |-> df[i].Rank, Player |-> df[i].Player,
                 Team |-> df[i].Team, Bye |-> df[i].Bye, Notes |-> df[i].Notes,
                 Status |-> df[i].Status]]
             \o Frames(bs, Tail(keys))

\* export_data
export_data(bs, keys) ==
    IF Frames(bs, keys) = <<>> THEN EmptyCsv ELSE to_csv(Frames(bs, keys))

\* pd.read_csv(StringIO(csv_text)), for a text with a header
read_csv(csv) ==
    [i \in 1..Len(csv.rows) |->
        [Position |-> ReadText(csv.rows[i].Position), Rank |-> ReadNum(csv.rows[i].Rank),
         Player |-> ReadText(csv.rows[i].Player), Team |-> ReadText(csv.rows[i].Team),
         Bye |-> ReadNum(csv.rows[i].Bye), Notes |-> ReadText(csv.rows[i].Notes),
         Status |-> ReadText(csv.rows[i].Status)]]

\* the key groupby("Position", dropna=False) puts a row under: its Position,
\* missing or not
GroupOf(r) == r.Position

\* the group keys in groupby's order: sorted, the missing one last
RECURSIVE SortKeys(_)
SortKeys(S) ==
    IF S = {} THEN <<>>
    ELSE LET first == CHOOSE k \in S :
                        \A x \in S \ {k} : IsNaN(x) \/ (~IsNaN(k) /\ StrLess(k, x))
         IN  <<first>> \o SortKeys(S \ {first})

\* d[k] = v on a dict
DictSet(st, k, v) ==
    [st EXCEPT !.boards = [x \in DOMAIN st.boards \cup {k} |->
                              IF x = k THEN v ELSE st.boards[x]],
               !.board_keys = IF k \in Range(st.board_keys) THEN st.board_keys
                              ELSE Append(st.board_keys, k)]

\* the loop of import_data over the groups
RECURSIVE ImportGroups(_, _, _)
ImportGroups(st, df, keys) ==
    IF keys = <<>> THEN st
    ELSE LET pos == Head(keys)
             position_df == SelectRows(df, [i \in 1..Len(df) |-> GroupOf(df[i]) = pos])
             st1 == IF pos \notin Range(st.positions)
                    THEN [st EXCEPT !.positions = Append(st.positions, pos)]
                    ELSE st
         IN  ImportGroups(DictSet(st1, pos, normalize_board(position_df)),
                          df, Tail(keys))

\* a mutant of import_data: only the Position column is required
import_data_lax(st, csv) ==
    IF "Position" \notin csv.header THEN [st |-> st, ret |-> "False"]
    ELSE LET df == read_csv(csv)
             keys == SortKeys({GroupOf(df[i]) : i \in 1..Len(df)})
         IN  [st |-> ImportGroups(st, df, keys), ret |-> "True"]

\* import_data: the store it leaves and the value it returns.  The empty text
\* makes read_csv raise, which the handler turns into False.
import_data(st, csv) ==
    IF csv.header = {} THEN [st |-> st, ret |-> "False"]
    ELSE IF COLUMNS \ csv.header # {} THEN [st |-> st, ret |-> "False"]
    ELSE LET df == read_csv(csv)
             keys == SortKeys({GroupOf(df[i]) : i \in 1..Len(df)})
         IN  [st |-> ImportGroups(st, df, keys), ret |-> "True"]

-----------------------------------------------------------------------------
(* The watchlist *)

\* a mutant of WatchRows: every row that is not Available is taken
RECURSIVE WatchRowsNotAvailable(_, _)
WatchRowsNotAvailable(bs, keys) ==
    IF keys = <<>> THEN <<>>
    ELSE LET pos == Head(keys)
             df == bs[pos]
             watch_df == SelectRows(df, [i \in 1..Len(df) |-> df[i].Status # Available])
         IN  [i \in 1..Len(watch_df) |->
                [Rank |-> watch_df[i].Rank, Player |-> watch_df[i].Player,
                 Team |-> watch_df[i].Team, Position |-> pos, Bye |-> watch_df[i].Bye,
                 Notes |-> watch_df[i].Notes, Status |-> watch_df[i].Status]]
             \o WatchRowsNotAvailable(bs, Tail(keys))

\* the Watch rows of every board, in the dict's order, each with its Position
RECURSIVE WatchRows(_, _)
WatchRows(bs, keys) ==
    IF keys = <<>> THEN <<>>
    ELSE LET pos == Head(keys)
             df == bs[pos]
             watch_df == SelectRows(df, [i \in 1..Len(df) |-> df[i].Status = Watch])
         IN  [i \in 1..Len(watch_df) |->
                [Rank |-> watch_df[i].Rank, Player |-> watch_df[i].Player,
                 Team |-> watch_df[i].Team, Position |-> pos, Bye |-> watch_df[i].Bye,
                 Notes |-> watch_df[i].Notes, Status |-> watch_df[i].Status]]
             \o WatchRows(bs, Tail(keys))

\* order_map[player], filled with 999 for a player the order does not name; the
\* dict comprehension keeps the last index of a name that occurs twice
CustomOrder(player, order) ==
    LET at == {i \in 1..Len(order) : order[i] = player}
    IN  IF at = {} THEN 999 ELSE (CHOOSE i \in at : \A j \in at : j <= i) - 1

\* The frames sort_values("custom_order") can return: the rows in ascending
\* order of the key.  The sort is pandas' default quicksort, which promises no
\* order among rows of equal key, so each such order is a possible result.
SortValues(combined, order) ==
    {[i \in 1..Len(combined) |-> combined[f[i]]] :
        f \in {g \in Orderings(Len(combined)) :
                /\ Len(g) = Len(combined)
                /\ \A i, j \in 1..Len(g) :
                     i < j => CustomOrder(combined[g[i]].Player, order)
                                <= CustomOrder(combined[g[j]].Player, order)}}

\* get_all_watch_players: the frames it can return
get_all_watch_players(bs, keys, order) ==
    LET combined == WatchRows(bs, keys)
    IN  IF combined = <<>> THEN {<<>>}
        ELSE IF order # <<>>
             THEN {update_ranks_from_order(df) : df \in SortValues(combined, order)}
             ELSE {update_ranks_from_order(combined)}

-----------------------------------------------------------------------------
(* Bulk add *)

\* a mutant of ParseLine: a line whose bye is no integer is skipped
ParseLineStrict(line) ==
    LET raw == Split(line, "|")
        parts == [j \in 1..Len(raw) |-> Strip(raw[j])]
        bad == Len(parts) > 2 /\ parts[3] # <<>> /\ ~IsInt(parts[3])
    IN  [Player |-> IF bad THEN <<>> ELSE parts[1],
         Team |-> IF Len(parts) > 1 THEN parts[2] ELSE <<>>,
         Bye |-> IF Len(parts) > 2 /\ IsInt(parts[3]) THEN IntOf(parts[3]) ELSE NoNum,
         Notes |-> IF Len(parts) > 3 THEN parts[4] ELSE <<>>]

\* the dict bulk_add_players passes to add_player for one stripped line; the
\* Player is empty when the line is to be skipped
ParseLine(line) ==
    LET raw == Split(line, "|")
        parts == [j \in 1..Len(raw) |-> Strip(raw[j])]
        name == parts[1]
        team == IF Len(parts) > 1 THEN parts[2] ELSE <<>>
        bye == IF Len(parts) > 2 /\ parts[3] # <<>> /\ IsInt(parts[3])
               THEN IntOf(parts[3]) ELSE NoNum
        notes == IF Len(parts) > 3 THEN parts[4] ELSE <<>>
    IN  [Player |-> name, Team |-> team, Bye |-> bye, Notes |-> notes]

\* lines = [line.strip() for line in text.splitlines() if line.strip()]
StrippedLines(text) ==
    LET all == SplitLines(text)
        NonBlank(l) == l # <<>>
    IN  SelectSeq([i \in 1..Len(all) |-> Strip(all[i])], NonBlank)

\* bulk_add_players, on the board of the position: the board it leaves
bulk_add_players(board, text) ==
    LET lines == StrippedLines(text)
        F[n \in 0..Len(lines)] ==
            IF n = 0 THEN board
            ELSE IF ParseLine(lines[n]).Player # <<>>
                 THEN add_player(F[n - 1], ParseLine(lines[n]))
                 ELSE F[n - 1]
    IN  F[Len(lines)]

-----------------------------------------------------------------------------
(* Session state *)

\* the boards of a new session: empty ones, and the sample data for RB
InitialBoards ==
    [pos \in Range(DEFAULT_POSITIONS) |-> IF pos = RB THEN SampleRB ELSE EmptyBoard]

\* initialize_session_state, on a new session
initialize_session_state ==
    /\ boards = InitialBoards
    /\ board_keys = DEFAULT_POSITIONS
    /\ positions = DEFAULT_POSITIONS
    /\ watchlist_order = <<>>

Init ==
    /\ initialize_session_state
    /\ last = [op |-> "init"]
    /\ ret = "None"

State == [boards |-> boards, board_keys |-> board_keys, positions |-> positions]

-----------------------------------------------------------------------------
(* What the user does in the model *)

\* what Add is called with: fields to strip, no team, and a status of the caller's
AddData ==
    { [Player |-> <<" ", "a">>, Team |-> <<>>, Bye |-> 9, Notes |-> <<"n", " ">>,
       Status |-> Watch] }

\* the text of a bulk add: a full line, a blank line, a line without a name
BulkTexts ==
    { <<"a", "|", "|", "9", "|", "n", "\n", " ", "\n", "|", "c">> }

\* the statuses the mark buttons pass
MarkStatuses == {Watch}

\* the rows of the imported texts: a position in lower case, a rank that is not
\* the row's place, no team, bye or notes, and a status that is none
ImportRow ==
    [Position |-> <<"q", "b">>, Rank |-> <<"5">>, Player |-> <<"a">>, Team |-> <<>>,
     Bye |-> <<>>, Notes |-> <<>>, Status |-> <<"x">>]

ImportRow2 ==
    [Position |-> <<"q", "b">>, Rank |-> <<>>, Player |-> <<"a">>, Team |-> <<>>,
     Bye |-> <<>>, Notes |-> <<>>, Status |-> Drafted]

\* the imported texts: no row, one row or two rows under the full header, one
\* row under a header that lacks columns, and the empty text
ImportTexts ==
    {[header |-> COLUMNS, rows |-> rs] :
        rs \in {<<>>, <<ImportRow>>, <<ImportRow, ImportRow2>>}}
    \cup {[header |-> COLUMNS \ cs, rows |-> <<ImportRow>>] :
            cs \in {{"Status"}, {"Position"}, {"Rank", "Bye"}}}
    \cup {EmptyCsv}

\* the sets of statuses hidden in a tab
HiddenChoices == {{}, {Watch}, {Drafted, Unavailable, Watch}}

\* the tabs the user adds players in
Tabs == Range(positions) \cap {RB, <<"q", "b">>}

\* what is typed into "Add Position"
NewPositions == { <<" ", "n", "a">>, <<"q", "b">> }

-----------------------------------------------------------------------------
(* The handlers *)

\* the Add button of a position tab (disabled while the name strips to nothing)
Add(position, player_data) ==
    /\ Strip(player_data.Player) # <<>>
    /\ boards' = [boards EXCEPT ![position] = add_player(boards[position], player_data)]
    /\ last' = [op |-> "add", pos |-> position, data |-> player_data,
                before |-> boards[position]]
    /\ ret' = "None"
    /\ UNCHANGED <<board_keys, positions, watchlist_order>>

\* the Bulk Add button of a position tab
BulkAdd(position, text) ==
    /\ boards' = [boards EXCEPT ![position] = bulk_add_players(boards[position], text)]
    /\ last' = [op |-> "bulk_add", pos |-> position, text |-> text]
    /\ ret' = "None"
    /\ UNCHANGED <<board_keys, positions, watchlist_order>>

\* mark_selected_players(position, selected_indices, new_status)
MarkSelected(position, selected_indices, new_status) ==
    /\ IF selected_indices = {}
       THEN ret' = "False" /\ UNCHANGED boards
       ELSE /\ boards' = [boards EXCEPT ![position] =
                            mark_selected_players(boards[position], selected_indices,
                                                  new_status)]
            /\ ret' = "True"
    /\ last' = [op |-> "mark", pos |-> position, sel |-> selected_indices,
                status |-> new_status, before |-> boards[position]]
    /\ UNCHANGED <<board_keys, positions, watchlist_order>>

\* remove_selected_players(position, selected_indices)
RemoveSelected(position, selected_indices) ==
    /\ IF selected_indices = {}
       THEN ret' = "False" /\ UNCHANGED boards
       ELSE /\ boards' = [boards EXCEPT ![position] =
                            remove_selected_players(boards[position], selected_indices)]
            /\ ret' = "True"
    /\ last' = [op |-> "remove", pos |-> position, sel |-> selected_indices,
                before |-> boards[position]]
    /\ UNCHANGED <<board_keys, positions, watchlist_order>>

\* a mutant of ReconcileEdit: what the grid returns is stored even without rows
ReconcileEditAlways(position, local_hidden, grid_data) ==
    LET board == normalize_board(boards[position])
        filtered_board == get_filtered_board(board, local_hidden)
    IN  /\ ~IsEmpty(filtered_board)
        /\ grid_data \in GridData(filtered_board)
        /\ boards' = [boards EXCEPT ![position] = update_ranks_from_order(grid_data)]
        /\ last' = [op |-> "grid", pos |-> position, data |-> grid_data,
                    hidden |-> local_hidden, before |-> boards[position]]
        /\ ret' = "None"
        /\ UNCHANGED <<board_keys, positions, watchlist_order>>

\* A position tab is drawn and its grid hands back grid_data: the board is
\* normalized and filtered, shown if any row is left, and what the grid returns
\* is ranked and stored unless it has no rows.
ReconcileEdit(position, local_hidden, grid_data) ==
    LET board == normalize_board(boards[position])
        filtered_board == get_filtered_board(board, local_hidden)
    IN  /\ ~IsEmpty(filtered_board)
        /\ grid_data \in GridData(filtered_board)
        /\ IF ~IsEmpty(grid_data)
           THEN boards' = [boards EXCEPT ![position] = update_ranks_from_order(grid_data)]
           ELSE UNCHANGED boards
        /\ last' = [op |-> "grid", pos |-> position, data |-> grid_data,
                    hidden |-> local_hidden, before |-> boards[position]]
        /\ ret' = "None"
        /\ UNCHANGED <<board_keys, positions, watchlist_order>>

\* the file uploader: import_data on the uploaded text
Import(csv) ==
    LET out == import_data(State, csv)
    IN  /\ boards' = out.st.boards
        /\ board_keys' = out.st.board_keys
        /\ positions' = out.st.positions
        /\ ret' = out.ret
        /\ last' = [op |-> "import", header |-> csv.header]
        /\ UNCHANGED watchlist_order

\* the text of the download button is uploaded
ImportExport ==
    /\ Import(export_data(boards, board_keys))

\* a mutant of ResetBoards: the sample data comes back
ResetBoardsSample == InitialBoards

\* the boards the Reset button builds
ResetBoards == [pos \in Range(DEFAULT_POSITIONS) |-> EmptyBoard]

\* the Reset button
Reset ==
    /\ positions' = DEFAULT_POSITIONS
    /\ boards' = ResetBoards
    /\ board_keys' = DEFAULT_POSITIONS
    /\ last' = [op |-> "reset"]
    /\ ret' = "None"
    /\ UNCHANGED watchlist_order

\* a mutant of ClearAll: only the default positions are cleared
ClearAllDefaults ==
    /\ boards' = [k \in DOMAIN boards |->
                    IF k \in Range(DEFAULT_POSITIONS) THEN EmptyBoard ELSE boards[k]]
    /\ last' = [op |-> "clear"]
    /\ ret' = "None"
    /\ UNCHANGED <<board_keys, positions, watchlist_order>>

\* the Clear All Players button
ClearAll ==
    /\ boards' = [k \in DOMAIN boards \cup Range(positions) |->
                    IF k \in Range(positions) THEN EmptyBoard ELSE boards[k]]
    /\ board_keys' = board_keys \o
                     SelectSeq(positions, LAMBDA k : k \notin Range(board_keys))
    /\ last' = [op |-> "clear"]
    /\ ret' = "None"
    /\ UNCHANGED <<positions, watchlist_order>>

\* a mutant of AddPosition: the position is added even if it is there already
AddPositionAgain(new_position) ==
    LET pos == Upper(Strip(new_position))
    IN  /\ Strip(new_position) # <<>>
        /\ positions' = Append(positions, pos)
        /\ boards' = DictSet(State, pos, EmptyBoard).boards
        /\ board_keys' = DictSet(State, pos, EmptyBoard).board_keys
        /\ last' = [op |-> "add_position"]
        /\ ret' = "None"
        /\ UNCHANGED watchlist_order

\* the Add Position button (disabled while the text strips to nothing)
AddPosition(new_position) ==
    LET pos == Upper(Strip(new_position))
    IN  /\ Strip(new_position) # <<>>
        /\ IF pos \notin Range(positions)
           THEN /\ positions' = Append(positions, pos)
                /\ boards' = DictSet(State, pos, EmptyBoard).boards
                /\ board_keys' = DictSet(State, pos, EmptyBoard).board_keys
           ELSE UNCHANGED <<positions, boards, board_keys>>
        /\ last' = [op |-> "add_position"]
        /\ ret' = "None"
        /\ UNCHANGED watchlist_order

-----------------------------------------------------------------------------
(* The session: any handler, any time.  The handlers that add rows are cut  *)
(* off where the store would hold more than MaxRows rows.                    *)

AddStep ==
    \E position \in Tabs, d \in AddData :
        TotalRows(boards) < MaxRows /\ Add(position, d)

BulkAddStep ==
    \E position \in Tabs, t \in BulkTexts :
        BulkAdd(position, t) /\ TotalRows(boards') <= MaxRows

MarkStep ==
    \E position \in DOMAIN boards, st \in MarkStatuses :
        \E sel \in SUBSET (1..Len(boards[position])) : MarkSelected(position, sel, st)

RemoveStep ==
    \E position \in DOMAIN boards :
        \E sel \in SUBSET (1..Len(boards[position])) : RemoveSelected(position, sel)

GridStep ==
    \E position \in Range(positions), hidden \in HiddenChoices :
        \E data \in GridData(get_filtered_board(normalize_board(boards[position]), hidden)) :
            ReconcileEdit(position, hidden, data)

ImportStep ==
    \E csv \in ImportTexts :
        Import(csv) /\ (boards' # boards => TotalRows(boards') <= MaxRows)

ImportExportStep ==
    ImportExport /\ TotalRows(boards') <= TotalRows(boards)

AddPositionStep ==
    \E p \in NewPositions : AddPosition(p)

Next ==
    \/ AddStep
    \/ BulkAddStep
    \/ MarkStep
    \/ RemoveStep
    \/ GridStep
    \/ ImportStep
    \/ ImportExportStep
    \/ Reset
    \/ ClearAll
    \/ AddPositionStep

Spec == Init /\ [][Next]_vars

-----------------------------------------------------------------------------
(* Properties of the session *)

Keys == DOMAIN boards

\* the identity fields ReconcileEdit's fingerprint is made of
Fingerprint(r) == <<r.Player, r.Team, r.Notes, r.Bye>>

\* the functions from 1..n onto S that take no value twice
Bijections(n, S) ==
    {f \in [1..n -> S] : (\A i, j \in 1..n : i # j => f[i] # f[j]) /\ Range(f) = S}

Dense(board) == \A i \in 1..Len(board) : board[i].Rank = i

\* C1: in every reachable state the ranks of every board are 1..N in row order.
RankDensity == \A k \in Keys : Dense(boards[k])

\* C2: an import of a text that lacks a required column returns False and
\* leaves the boards and the position list as they were.
ImportRejectsIncompleteSchema ==
    [][(last'.op = "import" /\ COLUMNS \ last'.header # {})
        => (ret' = "False" /\ boards' = boards /\ positions' = positions)]_vars

\* a text with a header that lacks a column has been imported into a store
\* that holds players, and False came back
ImportRejectedReached ==
    /\ last.op = "import"
    /\ last.header # {}
    /\ COLUMNS \ last.header # {}
    /\ ret = "False"
    /\ TotalRows(boards) > 0

SameItems(b1, b2) ==
    /\ Len(b1) = Len(b2)
    /\ \A i \in 1..Len(b1) :
         /\ b1[i].Player = b2[i].Player
         /\ b1[i].Team = b2[i].Team
         /\ b1[i].Bye = b2[i].Bye
         /\ b1[i].Notes = b2[i].Notes
         /\ b1[i].Status = b2[i].Status

\* C3: importing what export_data returns leaves the same positions and, in
\* every board, the same items (name, team, bye, notes, status) in the same order.
RoundTrip ==
    [][ImportExport =>
        /\ positions' = positions
        /\ DOMAIN boards' = DOMAIN boards
        /\ \A k \in DOMAIN boards : SameItems(boards'[k], boards[k])]_vars

\* data holds the rows of board, each once by fingerprint, in some order, and
\* some row with another status
RestatusedPermutation(data, board) ==
    /\ Len(data) > 0
    /\ Len(data) = Len(board)
    /\ \E f \in Bijections(Len(data), 1..Len(board)) :
         /\ \A i \in 1..Len(data) : Fingerprint(data[i]) = Fingerprint(board[f[i]])
         /\ \E i \in 1..Len(data) : data[i].Status # board[f[i]].Status

\* C4: when the grid hands back the rows of the board in some order, some with
\* a new status, the board then holds the same rows by fingerprint, each once,
\* in the order and with the statuses handed back, ranked 1..N.
ReconcileKeepsRows ==
    [][(last'.op = "grid" /\ RestatusedPermutation(last'.data, boards[last'.pos]))
        => LET old == boards[last'.pos]
               new == boards'[last'.pos]
               data == last'.data
           IN  /\ Len(new) = Len(old)
               /\ \E g \in Bijections(Len(new), 1..Len(old)) :
                     \A i \in 1..Len(new) : Fingerprint(new[i]) = Fingerprint(old[g[i]])
               /\ \A i \in 1..Len(new) :
                     /\ Fingerprint(new[i]) = Fingerprint(data[i])
                     /\ new[i].Status = data[i].Status
                     /\ new[i].Rank = i]_vars

\* the grid of RB has handed back the sample rows with the first two dragged
\* and the new first one set to Watch, and the board holds them so
ReconcileReached ==
    /\ last.op = "grid"
    /\ last.pos = RB
    /\ Len(boards[RB]) = 3
    /\ boards[RB][1].Player = SampleRB[2].Player
    /\ boards[RB][1].Status = Watch
    /\ boards[RB][2].Player = SampleRB[1].Player
    /\ boards[RB][3].Player = SampleRB[3].Player

\* the Watch items of the store: board and row
WatchItems == {ki \in UNION {{<<k, i>> : i \in 1..Len(boards[k])} : k \in Keys} :
                boards[ki[1]][ki[2]].Status = Watch}

\* the custom orders the view is computed under: up to two names, of players
\* of the store or of none
WatchOrders ==
    LET names == UNION {{boards[k][i].Player : i \in 1..Len(boards[k])} : k \in Keys}
                 \cup {<<"z">>}
    IN  {<<>>} \cup {<<n>> : n \in names} \cup {<<n, m>> : n \in names, m \in names}

\* C5: whatever the custom order, the watchlist holds one row for each Watch
\* item of the store and no other row, each with the position of its board and
\* the fields of its item, ranked 1..N.
WatchlistFilter ==
    \A order \in WatchOrders :
        \A view \in get_all_watch_players(boards, board_keys, order) :
            /\ Len(view) = Cardinality(WatchItems)
            /\ \A j \in 1..Len(view) : view[j].Rank = j /\ view[j].Status = Watch
            /\ \E g \in Bijections(Len(view), WatchItems) :
                 \A j \in 1..Len(view) :
                    LET item == boards[g[j][1]][g[j][2]]
                    IN  /\ view[j].Position = g[j][1]
                        /\ Fingerprint(view[j]) = Fingerprint(item)

\* a grid has handed back a status edit, and two boards hold a Watch item each
WatchlistReached ==
    /\ last.op = "grid"
    /\ \E ki, kj \in WatchItems : ki[1] # kj[1]

-----------------------------------------------------------------------------
(* Bulk add, over every short text *)

\* the characters of the bulk-add texts: a letter, a digit, the separator,
\* a blank and a line end
BulkAlphabet == {"a", "9", "|", " ", "\n"}

AllBulkTexts == UNION {[1..n -> BulkAlphabet] : n \in 0..MaxTextLen}

\* one Bulk Add, on the sample board or on an empty one, right after the start
NextBulk ==
    /\ last.op = "init"
    /\ \E position \in {RB, QB}, text \in AllBulkTexts : BulkAdd(position, text)

SpecBulk == Init /\ [][NextBulk]_vars

\* what stands before the first "|" of a line
FirstField(line) ==
    IF \E i \in 1..Len(line) : line[i] = "|"
    THEN SubSeq(line, 1, (CHOOSE i \in 1..Len(line) :
                            line[i] = "|" /\ \A j \in 1..(i - 1) : line[j] # "|") - 1)
    ELSE line

HasName(line) == Strip(FirstField(line)) # <<>>

\* C6: a bulk add appends to the board, after the rows it had, one row for each
\* line of the text whose first field is not blank, in line order; the other
\* lines add nothing; the bye of a row is the third field if that is an
\* integer and unset otherwise.
BulkAddSkipRule ==
    [][last'.op = "bulk_add"
        => LET old == boards[last'.pos]
               new == boards'[last'.pos]
               named == SelectSeq(Split(last'.text, "\n"), HasName)
           IN  /\ Len(new) = Len(old) + Len(named)
               /\ SameItems(SubSeq(new, 1, Len(old)), old)
               /\ \A j \in 1..Len(named) :
                    LET row == new[Len(old) + j]
                        fields == Split(named[j], "|")
                    IN  /\ row.Player = Strip(fields[1])
                        /\ row.Status = Available
                        /\ row.Rank = Len(old) + j
                        /\ row.Bye = IF Len(fields) > 2 /\ IsInt(Strip(fields[3]))
                                     THEN IntOf(Strip(fields[3])) ELSE NoNum
               /\ \A k \in DOMAIN boards \ {last'.pos} : boards'[k] = boards[k]]_vars

\* a text with a line whose bye is no integer and a blank line after it has
\* been added to the sample board, which has one row more with no bye
BulkAddReached ==
    /\ last.op = "bulk_add"
    /\ last.pos = RB
    /\ LET lines == Split(last.text, "\n")
       IN  /\ Len(lines) = 2
           /\ Strip(lines[2]) = <<>>
           /\ Len(Split(lines[1], "|")) = 3
           /\ Split(lines[1], "|")[3] = <<"a">>
    /\ Len(boards[RB]) = Len(SampleRB) + 1
    /\ boards[RB][Len(boards[RB])].Bye = NoNum

-----------------------------------------------------------------------------
(* Add, over boards of every ranking *)

\* the rows of the boards a player is added to: ranked, ranked out of place
\* or not ranked
AddRows ==
    [Rank : {NoNum, 1, 5}, Player : {<<"a">>, <<"b">>}, Team : {<<>>},
     Bye : {NoNum}, Notes : {<<>>}, Status : {Available, Watch}]

AddBoards == UNION {[1..n -> AddRows] : n \in 0..MaxRows}

\* what add_player is called with: with or without a status
AllAddData ==
    [Player : {<<"a">>, <<" ", "b", " ">>}, Team : {<<>>, <<"X", " ">>},
     Bye : {NoNum, 9}, Notes : {<<>>}]
    \cup [Player : {<<"a">>, <<" ", "b", " ">>}, Team : {<<>>, <<"X", " ">>},
          Bye : {NoNum, 9}, Notes : {<<>>}, Status : {Watch, Drafted}]

\* a session whose QB board holds any of the boards
InitAdd ==
    /\ \E b \in AddBoards : boards = [InitialBoards EXCEPT ![QB] = b]
    /\ board_keys = DEFAULT_POSITIONS
    /\ positions = DEFAULT_POSITIONS
    /\ watchlist_order = <<>>
    /\ last = [op |-> "init"]
    /\ ret = "None"

\* one Add, to that board or to the sample board
NextAdd ==
    /\ last.op = "init"
    /\ \E position \in {RB, QB}, player_data \in AllAddData : Add(position, player_data)

SpecAdd == InitAdd /\ [][NextAdd]_vars

\* C7: an Add leaves the board one row longer; the rows it had keep their
\* order and their fields other than the rank; the new row is last, has the
\* trimmed name and is Available whatever status came with it; the ranks are
\* 1..N; every other board is as it was.
AddAppends ==
    [][last'.op = "add"
        => LET old == boards[last'.pos]
               new == boards'[last'.pos]
           IN  /\ Len(new) = Len(old) + 1
               /\ SameItems(SubSeq(new, 1, Len(old)), old)
               /\ new[Len(new)].Player = Strip(last'.data.Player)
               /\ new[Len(new)].Status = Available
               /\ Dense(new)
               /\ DOMAIN boards' = DOMAIN boards
               /\ \A k \in DOMAIN boards \ {last'.pos} : boards'[k] = boards[k]]_vars

\* a player that came with another status has been added to a board of two
\* rows whose ranks were not 1, 2
AddReached ==
    /\ last.op = "add"
    /\ "Status" \in DOMAIN last.data
    /\ last.data.Status # Available
    /\ Len(last.before) = 2
    /\ ~Dense(last.before)
    /\ Len(boards[last.pos]) = 3

-----------------------------------------------------------------------------
(* Reset, positions *)

\* C8 as stated: after Reset the store is the store of a new session, the
\* sample rows of RB included.
ResetRestoresSessionStart ==
    last.op = "reset" => (positions = DEFAULT_POSITIONS /\ boards = InitialBoards)

\* C8: after Reset the positions are the default ones and every one of them,
\* RB included, has an empty board.
ResetEmptiesDefaults ==
    last.op = "reset"
        => /\ positions = DEFAULT_POSITIONS
           /\ DOMAIN boards = Range(DEFAULT_POSITIONS)
           /\ \A pos \in DOMAIN boards : boards[pos] = EmptyBoard

\* Reset has been pressed, and RB is empty
ResetReached ==
    /\ last.op = "reset"
    /\ boards[RB] = EmptyBoard
    /\ boards # InitialBoards

\* C9: the positions that have a board are the positions of the list, and the
\* list holds no position twice.
StoreConsistency ==
    /\ DOMAIN boards = Range(positions)
    /\ \A i, j \in 1..Len(positions) : i # j => positions[i] # positions[j]

\* an import has registered a position that was not there, with its board,
\* next to one that Add Position made
StoreConsistencyReached ==
    /\ last.op = "import"
    /\ ret = "True"
    /\ <<"q", "b">> \in Range(positions) \ Range(DEFAULT_POSITIONS)
    /\ <<"N", "A">> \in Range(positions)
    /\ boards[<<"q", "b">>] # EmptyBoard

\* C10: every position of the store, in the list or with a board, is in upper case.
CategoryNamesUpper ==
    \A k \in DOMAIN boards \cup Range(positions) : Upper(k) = k

-----------------------------------------------------------------------------
(* Clear All *)

\* C11: after Clear All Players every board of the store has no rows, and the
\* position list and the set of positions that have a board are as before.
ClearAllEmpties ==
    [][last'.op = "clear"
        => /\ \A k \in DOMAIN boards' : Len(boards'[k]) = 0
           /\ positions' = positions
           /\ DOMAIN boards' = DOMAIN boards]_vars

\* Clear All has been pressed in a store that holds a position an import made
\* (with the rows it brought) and one Add Position made; every board is empty
ClearAllReached ==
    /\ last.op = "clear"
    /\ <<"q", "b">> \in DOMAIN boards
    /\ <<"N", "A">> \in DOMAIN boards
    /\ TotalRows(boards) = 0

-----------------------------------------------------------------------------
(* Remove and mark, over boards of every ranking *)

\* the statuses mark_selected_players is called with: the four, and one that
\* is none of them
AllMarkStatuses == STATUS_OPTIONS \cup {<<"x">>}

\* one call of remove_selected_players or of mark_selected_players, on the
\* sample board or on the board InitAdd chose, with any selection of its rows
NextSelect ==
    /\ last.op = "init"
    /\ \E position \in {RB, QB} :
         \E sel \in SUBSET (1..Len(boards[position])) :
            \/ RemoveSelected(position, sel)
            \/ \E st \in AllMarkStatuses : MarkSelected(position, sel, st)

SpecSelect == InitAdd /\ [][NextSelect]_vars

\* the i-th of the rows 1..n that are not selected
KeptRow(i, n, sel) ==
    CHOOSE k \in (1..n) \ sel : Cardinality({j \in (1..n) \ sel : j <= k}) = i

\* C12: remove_selected_players with a selection of rows of the board leaves
\* the rows that were not selected, in their order and with their fields other
\* than the rank, ranked 1..N, and returns True; with no row selected it
\* returns False and the store is as it was.
RemoveSelectedRemoves ==
    [][last'.op = "remove"
        => LET old == boards[last'.pos]
               new == boards'[last'.pos]
               sel == last'.sel
           IN  /\ positions' = positions
               /\ DOMAIN boards' = DOMAIN boards
               /\ \A k \in DOMAIN boards \ {last'.pos} : boards'[k] = boards[k]
               /\ IF sel = {}
                  THEN ret' = "False" /\ new = old
                  ELSE /\ ret' = "True"
                       /\ Len(new) = Len(old) - Cardinality(sel)
                       /\ Dense(new)
                       /\ SameItems(new, [i \in 1..Len(new) |->
                                            old[KeptRow(i, Len(old), sel)]])]_vars

\* the first of two rows has been removed from a board whose ranks were not
\* 1, 2; the second row is left, with rank 1
RemoveReached ==
    /\ last.op = "remove"
    /\ Len(last.before) = 2
    /\ ~Dense(last.before)
    /\ last.sel = {1}
    /\ Len(boards[last.pos]) = 1
    /\ boards[last.pos][1].Player = last.before[2].Player
    /\ boards[last.pos][1].Rank = 1

\* C13: mark_selected_players with a selection of rows of the board sets the
\* status of the selected rows and changes nothing else: not the number or
\* the order of the rows, not a rank, name, team, bye or notes, not the status
\* of another row, not another board; it returns True.  With no row selected
\* it returns False and the store is as it was.
MarkChangesStatusOnly ==
    [][last'.op = "mark"
        => LET old == boards[last'.pos]
               new == boards'[last'.pos]
               sel == last'.sel
           IN  /\ positions' = positions
               /\ DOMAIN boards' = DOMAIN boards
               /\ \A k \in DOMAIN boards \ {last'.pos} : boards'[k] = boards[k]
               /\ IF sel = {}
                  THEN ret' = "False" /\ new = old
                  ELSE /\ ret' = "True"
                       /\ Len(new) = Len(old)
                       /\ \A i \in 1..Len(old) :
                            /\ new[i].Rank = old[i].Rank
                            /\ Fingerprint(new[i]) = Fingerprint(old[i])
                            /\ new[i].Status = IF i \in sel THEN last'.status
                                               ELSE old[i].Status]_vars

\* one of two rows of a board whose ranks are not 1, 2 has been marked Drafted,
\* and the other row has another status
MarkReached ==
    /\ last.op = "mark"
    /\ Len(last.before) = 2
    /\ ~Dense(last.before)
    /\ last.sel = {2}
    /\ last.status = Drafted
    /\ boards[last.pos][2].Status = Drafted
    /\ boards[last.pos][1].Status # Drafted

-----------------------------------------------------------------------------
(* update_ranks_from_order, applied again and again *)

\* the rows of the frames it is applied to: not ranked, or ranked 1, 2 or 5
ReindexRows ==
    [Rank : {NoNum, 1, 2, 5}, Player : {<<"a">>}, Team : {<<>>},
     Bye : {NoNum}, Notes : {<<>>}, Status : {Available, Watch}]

\* the frames: empty, dense, with ranks unset, twice the same or with a gap
ReindexBoards == UNION {[1..n -> ReindexRows] : n \in 0..MaxRows}

\* a session whose QB board holds any of the frames
InitReindex ==
    /\ \E b \in ReindexBoards : boards = [InitialBoards EXCEPT ![QB] = b]
    /\ board_keys = DEFAULT_POSITIONS
    /\ positions = DEFAULT_POSITIONS
    /\ watchlist_order = <<>>
    /\ last = [op |-> "init"]
    /\ ret = "None"

\* update_ranks_from_order is applied to the frame; last keeps the frame it
\* was first applied to and the one of this application
Reindex ==
    /\ last.op = "reindex" => last.n < MaxReindex
    /\ boards' = [boards EXCEPT ![QB] = update_ranks_from_order(boards[QB])]
    /\ last' = [op |-> "reindex",
                n |-> IF last.op = "reindex" THEN last.n + 1 ELSE 1,
                input |-> IF last.op = "reindex" THEN last.input ELSE boards[QB],
                before |-> boards[QB]]
    /\ UNCHANGED <<board_keys, positions, watchlist_order, ret>>

SpecReindex == InitReindex /\ [][Reindex]_vars

\* C14: one application of update_ranks_from_order changes neither the number
\* nor the order of the rows nor a field other than the rank, and an
\* application after another one changes nothing at all.
ReindexIdempotent ==
    [][last'.op = "reindex"
        => /\ Len(boards'[QB]) = Len(boards[QB])
           /\ SameItems(boards'[QB], boards[QB])
           /\ last.op = "reindex" => boards'[QB] = boards[QB]]_vars

\* update_ranks_from_order has been applied twice to a frame of two rows whose
\* ranks were not 1, 2, and the second time it gave what the first had given
ReindexReached ==
    /\ last.op = "reindex"
    /\ last.n = 2
    /\ Len(last.input) = 2
    /\ ~Dense(last.input)
    /\ Dense(boards[QB])
    /\ last.before = boards[QB]

-----------------------------------------------------------------------------
(* The watchlist tab *)

\* The watchlist tab is drawn: get_all_watch_players gives watchlist_df, the
\* grid shows it if it has rows and hands back updated_watchlist, the names of
\* which become the custom order.
WatchlistRender(watchlist_df, updated_watchlist) ==
    /\ watchlist_df \in get_all_watch_players(boards, board_keys, watchlist_order)
    /\ ~IsEmpty(watchlist_df)
    /\ ~IsEmpty(updated_watchlist)
    /\ watchlist_order' = [i \in 1..Len(updated_watchlist) |-> updated_watchlist[i].Player]
    /\ last' = [op |-> "watchlist", view |-> watchlist_df, order |-> watchlist_order]
    /\ ret' = "None"
    /\ UNCHANGED <<boards, board_keys, positions>>

\* the grid of the watchlist hands back the rows as they are or with the first
\* two dragged
WatchlistStep ==
    \E watchlist_df \in get_all_watch_players(boards, board_keys, watchlist_order) :
        \E updated_watchlist \in {watchlist_df, SwapFirstTwo(watchlist_df)} :
            WatchlistRender(watchlist_df, updated_watchlist)

\* the grid of RB or of QB hands back its rows, nothing hidden
WatchGridStep ==
    \E position \in {RB, QB} :
        \E data \in GridData(get_filtered_board(normalize_board(boards[position]), {})) :
            ReconcileEdit(position, {}, data)

\* a new session in which a player has been added to QB
InitWatch ==
    /\ boards = [InitialBoards EXCEPT ![QB] =
                    add_player(EmptyBoard, CHOOSE d \in AddData : TRUE)]
    /\ board_keys = DEFAULT_POSITIONS
    /\ positions = DEFAULT_POSITIONS
    /\ watchlist_order = <<>>
    /\ last = [op |-> "init"]
    /\ ret = "None"

NextWatch ==
    \/ WatchlistStep
    \/ WatchGridStep

SpecWatch == InitWatch /\ [][NextWatch]_vars

\* the rows of a frame that the order does not name, without their ranks
Unnamed(df, order) ==
    LET NotNamed(r) == r.Player \notin Range(order)
        rows == SelectSeq(df, NotNamed)
    IN  [i \in 1..Len(rows) |-> <<rows[i].Position, Fingerprint(rows[i])>>]

-----------------------------------------------------------------------------
(* The grid of a position tab: rows left out, rows hidden *)

\* no row of new has a fingerprint that data does not hold
NoneLeftOver(new, data) ==
    \A i \in 1..Len(new) : \E j \in 1..Len(data) :
        Fingerprint(new[i]) = Fingerprint(data[j])

\* C16 as stated: whatever rows the grid hands back, none at all included, the
\* board then holds those rows in that order and no row whose fingerprint is
\* not among them.
ReconcileStoresAnySnapshot ==
    [][last'.op = "grid"
        => /\ SameItems(boards'[last'.pos], last'.data)
           /\ NoneLeftOver(boards'[last'.pos], last'.data)]_vars

\* C16: when the grid hands back rows, the board then holds those rows in
\* that order, ranked 1..N, and no row whose fingerprint is not among them;
\* when it hands back no row, the board is as it was.  No other board changes.
ReconcileStoresSnapshot ==
    [][last'.op = "grid"
        => LET old == boards[last'.pos]
               new == boards'[last'.pos]
               data == last'.data
           IN  /\ IF data # <<>>
                  THEN /\ SameItems(new, data)
                       /\ NoneLeftOver(new, data)
                       /\ Dense(new)
                  ELSE new = old
               /\ \A k \in DOMAIN boards \ {last'.pos} : boards'[k] = boards[k]
               /\ DOMAIN boards' = DOMAIN boards]_vars

\* with nothing hidden, the grid has handed back two of the three rows of a
\* board, and the board holds these two and not the third
ReconcileOmitReached ==
    /\ last.op = "grid"
    /\ last.hidden = {}
    /\ Len(last.before) = 3
    /\ Len(last.data) = 2
    /\ Len(boards[last.pos]) = 2
    /\ \A i \in 1..2 : Fingerprint(boards[last.pos][i]) # Fingerprint(last.before[3])

\* C17: when the grid hands back the rows it was given, those that the hidden
\* statuses of the tab leave, the board still holds every row it held.
HidingLosesNoRows ==
    [][(/\ last'.op = "grid"
        /\ last'.data = get_filtered_board(normalize_board(boards[last'.pos]),
                                           last'.hidden))
        => \A i \in 1..Len(boards[last'.pos]) :
             \E j \in 1..Len(boards'[last'.pos]) :
                /\ Fingerprint(boards'[last'.pos][j]) = Fingerprint(boards[last'.pos][i])
                /\ boards'[last'.pos][j].Status = boards[last'.pos][i].Status]_vars

====
